---- MODULE Spec2Model ----
(***************************************************************************)
(* Phase-lock synchronizer (src/server/phase-lock.ts), the lambda history  *)
(* of the TriNode bridge (src/server/trinode.ts) and the consensus lambda  *)
(* of the three sequential pipelines (trinode-pipeline, the local-AI       *)
(* router, the WebSocket pipeline).                                        *)
(*                                                                         *)
(* Numbers are fixed point:                                                *)
(*   phases        in units of 1/PhaseScale degree,                        *)
(*   amplitudes    in units of 1/AmpScale,                                 *)
(*   coherence     in units of 1/CohScale,                                 *)
(*   momentum      in units of 1/MomScale,                                 *)
(*   lambda        in units of 1/LambdaScale.                              *)
(* The scales are chosen so that every value the operations produce from   *)
(* the inputs below is represented exactly.                                *)
(***************************************************************************)
EXTENDS Integers, Sequences, FiniteSets, TLC

VARIABLES arms, queen, coherenceHistory, bridge, now, lastCall,
          cohLog, lamLog, corrections, report, recomputed, pipeline, probe,
          trinodeState, checks, db, ws

vars == <<arms, queen, coherenceHistory, bridge, now, lastCall,
          cohLog, lamLog, corrections, report, recomputed, pipeline, probe,
          trinodeState, checks, db, ws>>

(* ------------------------------ bounds -------------------------------- *)

\* operations per run of the engine specification
MaxClock == 3
\* selfCorrect calls per run; each call adds one decimal digit to a phase
MaxSelfCorrect == 1
\* operations per run of the alignment specification
MaxAlignOps == 4
\* operations per run of the reader specification
MaxReadOps == 3
\* appends per history in the history specification
MaxPushes == 150

(* ------------------------------ scales -------------------------------- *)

PhaseScale == 10 ^ MaxSelfCorrect
Deg(d) == d * PhaseScale
FullTurn == Deg(360)
HalfTurn == Deg(180)
\* amplitudes are multiples of 1/2 on input; redistribution divides by
\* 10 and by an online count of 1, 2 or 3
AmpScale == 2 * 60
CohScale == 4 * 180 * PhaseScale
MomScale == 4 * AmpScale
LambdaScale == 6 * 1000

(* ------------------------------ helpers ------------------------------- *)

Abs(x) == IF x < 0 THEN -x ELSE x
Min(a, b) == IF a < b THEN a ELSE b
Max(a, b) == IF a > b THEN a ELSE b

\* insertion order of the Map (phase-lock.ts:45-79)
ArmOrder == <<"qwen", "gemma", "deepseek", "os">>
ArmNames == {ArmOrder[i] : i \in 1..Len(ArmOrder)}
Health == {"online", "degraded", "offline"}

RECURSIVE SumSeq(_)
SumSeq(s) == IF s = <<>> THEN 0 ELSE Head(s) + SumSeq(Tail(s))

\* JavaScript's % : the remainder takes the sign of the dividend
JSRem(x, m) == IF x >= 0 THEN x % m ELSE -((-x) % m)

\* a variant without the lower clamp
Clamp01_NoFloor(a) == Min(AmpScale, a)

\* phase-lock.ts:104: Math.max(0, Math.min(1, amplitude))
Clamp01(a) == Max(0, Min(AmpScale, a))

(* ------------------------------ AngleMath ----------------------------- *)

RECURSIVE WrapDown(_)
WrapDown(diff) == IF diff > HalfTurn THEN WrapDown(diff - FullTurn) ELSE diff

RECURSIVE WrapUp(_)
WrapUp(diff) == IF diff < -HalfTurn THEN WrapUp(diff + FullTurn) ELSE diff

\* a variant without the `while (diff < -180)` loop
angleDifference_NoWrapUp(angle1, angle2) == WrapDown(angle1 - angle2)

\* a variant without the `while (diff > 180)` loop
angleDifference_NoWrapDown(angle1, angle2) == WrapUp(angle1 - angle2)

\* phase-lock.ts:297-302
angleDifference(angle1, angle2) == WrapUp(WrapDown(angle1 - angle2))

\* sin of 0..90 degrees, times TrigScale
SinTable ==
  <<0, 175, 349, 523, 698, 872, 1045, 1219, 1392, 1564, 1736, 1908, 2079,
    2250, 2419, 2588, 2756, 2924, 3090, 3256, 3420, 3584, 3746, 3907, 4067,
    4226, 4384, 4540, 4695, 4848, 5000, 5150, 5299, 5446, 5592, 5736, 5878,
    6018, 6157, 6293, 6428, 6561, 6691, 6820, 6947, 7071, 7193, 7314, 7431,
    7547, 7660, 7771, 7880, 7986, 8090, 8192, 8290, 8387, 8480, 8572, 8660,
    8746, 8829, 8910, 8988, 9063, 9135, 9205, 9272, 9336, 9397, 9455, 9511,
    9563, 9613, 9659, 9703, 9744, 9781, 9816, 9848, 9877, 9903, 9925, 9945,
    9962, 9976, 9986, 9994, 9998, 10000>>
TrigScale == SinTable[91]

\* Math.sin at a whole number of degrees
SinDeg(d) ==
  LET r == d % 360
  IN  IF r <= 90 THEN SinTable[r + 1]
      ELSE IF r <= 180 THEN SinTable[180 - r + 1]
      ELSE IF r <= 270 THEN -SinTable[r - 180 + 1]
      ELSE -SinTable[360 - r + 1]

CosDeg(d) == SinDeg(d + 90)

\* Math.sin / Math.cos of a phase, interpolated between whole degrees
SinPhase(p) ==
  LET q == p \div PhaseScale
      r == p % PhaseScale
  IN  (SinDeg(q) * (PhaseScale - r) + SinDeg(q + 1) * r) \div PhaseScale

CosPhase(p) ==
  LET q == p \div PhaseScale
      r == p % PhaseScale
  IN  (CosDeg(q) * (PhaseScale - r) + CosDeg(q + 1) * r) \div PhaseScale

\* directions the mean can take when the resultant vector vanishes: the
\* floating-point sums then hold only rounding residue, whose direction
\* atan2 returns
ResidueDirections == {Deg(15 * k) : k \in -11..12}

\* the component of the vector (cosSum, sinSum) perpendicular to the
\* direction of g whole degrees; it is >= 0 at g and < 0 at g + 1 exactly
\* when the vector points between the two
Perp(sinSum, cosSum, g) == sinSum * CosDeg(g) - cosSum * SinDeg(g)

\* the whole degree in [lo, hi) at which Perp changes sign, by bisection
RECURSIVE SignChange(_, _, _, _)
SignChange(sinSum, cosSum, lo, hi) ==
  IF hi - lo <= 1 THEN lo
  ELSE LET mid == (lo + hi) \div 2
       IN  IF Perp(sinSum, cosSum, mid) >= 0
           THEN SignChange(sinSum, cosSum, mid, hi)
           ELSE SignChange(sinSum, cosSum, lo, mid)

\* Math.atan2(sinSum, cosSum) in phase units, range (-180, 180] degrees, for
\* a vector that is not zero: the quadrant from the signs, the whole degree
\* by SignChange, and a linear refinement inside that degree
Atan2Deg(sinSum, cosSum) ==
  IF sinSum = 0 /\ cosSum < 0 THEN HalfTurn
  ELSE LET lo == IF sinSum >= 0 /\ cosSum > 0 THEN 0
                 ELSE IF sinSum > 0 THEN 90
                 ELSE IF cosSum < 0 THEN -180
                 ELSE -90
           g0 == SignChange(sinSum, cosSum, lo, lo + 90)
           p0 == Perp(sinSum, cosSum, g0)
           span == p0 - Perp(sinSum, cosSum, g0 + 1)
       IN  Deg(g0) + (2 * p0 * PhaseScale + span) \div (2 * span)

\* phase-lock.ts:280-292; a set, because of ResidueDirections
circularMean(angles) ==
  LET sinSum == SumSeq([i \in 1..Len(angles) |-> SinPhase(angles[i])])
      cosSum == SumSeq([i \in 1..Len(angles) |-> CosPhase(angles[i])])
  IN  IF sinSum = 0 /\ cosSum = 0 THEN ResidueDirections
      ELSE {Atan2Deg(sinSum, cosSum)}

(* --------------------------- PhaseLockSynchronizer -------------------- *)

\* phase-lock.ts:41
maxHistorySize == 100

\* a variant that drops the newest entry instead of the oldest
pushCoherence_DropNewest(history, coherence) ==
  LET pushed == Append(history, coherence)
  IN  IF Len(pushed) > maxHistorySize
      THEN SubSeq(pushed, 1, Len(pushed) - 1) ELSE pushed

\* phase-lock.ts:133-136: push, then shift once the length exceeds the size
pushCoherence(history, coherence) ==
  LET pushed == Append(history, coherence)
  IN  IF Len(pushed) > maxHistorySize THEN Tail(pushed) ELSE pushed

\* a variant that adds the share without the Math.min(1.0, ...) cap
calculateTorqueRedistribution_NoCap(a, q) ==
  LET onlineArms   == {n \in ArmNames : a[n].health = "online"}
      degradedArms == {n \in ArmNames : a[n].health # "online"}
      degradedLoad ==
        SumSeq([i \in 1..Len(ArmOrder) |->
                  IF ArmOrder[i] \in degradedArms
                  THEN a[ArmOrder[i]].amplitude ELSE 0])
      share == degradedLoad \div (10 * Max(Cardinality(onlineArms), 1))
  IN  IF degradedArms = {}
      THEN [arms |-> a, queen |-> [q EXCEPT !.torqueRedistribution = 0]]
      ELSE [arms |->
              [n \in ArmNames |->
                 IF n \in onlineArms
                 THEN [a[n] EXCEPT !.amplitude = a[n].amplitude + share]
                 ELSE a[n]],
            queen |-> [q EXCEPT !.torqueRedistribution = degradedLoad]]

\* a variant that leaves the torque as it was when no arm is degraded
calculateTorqueRedistribution_KeepTorque(a, q) ==
  LET onlineArms   == {n \in ArmNames : a[n].health = "online"}
      degradedArms == {n \in ArmNames : a[n].health # "online"}
      degradedLoad ==
        SumSeq([i \in 1..Len(ArmOrder) |->
                  IF ArmOrder[i] \in degradedArms
                  THEN a[ArmOrder[i]].amplitude ELSE 0])
      share == degradedLoad \div (10 * Max(Cardinality(onlineArms), 1))
  IN  IF degradedArms = {}
      THEN [arms |-> a, queen |-> q]
      ELSE [arms |->
              [n \in ArmNames |->
                 IF n \in onlineArms
                 THEN [a[n] EXCEPT !.amplitude = Min(AmpScale, a[n].amplitude + share)]
                 ELSE a[n]],
            queen |-> [q EXCEPT !.torqueRedistribution = degradedLoad]]

\* phase-lock.ts:155-175; returns the arms and the queen it leaves
calculateTorqueRedistribution(a, q) ==
  LET onlineArms   == {n \in ArmNames : a[n].health = "online"}
      degradedArms == {n \in ArmNames : a[n].health # "online"}
      degradedLoad ==
        SumSeq([i \in 1..Len(ArmOrder) |->
                  IF ArmOrder[i] \in degradedArms
                  THEN a[ArmOrder[i]].amplitude ELSE 0])
      \* redistributedPerArm * 0.1
      share == degradedLoad \div (10 * Max(Cardinality(onlineArms), 1))
  IN  IF degradedArms = {}
      THEN [arms |-> a, queen |-> [q EXCEPT !.torqueRedistribution = 0]]
      ELSE [arms |->
              [n \in ArmNames |->
                 IF n \in onlineArms
                 THEN [a[n] EXCEPT !.amplitude = Min(AmpScale, a[n].amplitude + share)]
                 ELSE a[n]],
            queen |-> [q EXCEPT !.torqueRedistribution = degradedLoad]]

\* a variant that averages the signed differences (no Math.abs)
Coherence_Signed(a, q) ==
  LET phaseDifferences ==
        [i \in 1..Len(ArmOrder) |-> angleDifference(a[ArmOrder[i]].phase, q.phase)]
  IN  Max(0, CohScale - SumSeq(phaseDifferences))

\* phase-lock.ts:119-129: max(0, 1 - avgDifference / 180)
Coherence(a, q) ==
  LET phaseDifferences ==
        [i \in 1..Len(ArmOrder) |-> angleDifference(a[ArmOrder[i]].phase, q.phase)]
      sumAbs == SumSeq([i \in 1..Len(ArmOrder) |-> Abs(phaseDifferences[i])])
  IN  Max(0, CohScale - sumAbs)

\* phase-lock.ts:138-145: totalAmplitude / arms.length, in units of 1/MomScale
AngularMomentum(a) ==
  SumSeq([i \in 1..Len(ArmOrder) |->
            IF a[ArmOrder[i]].health = "online"
            THEN a[ArmOrder[i]].amplitude ELSE 0])

\* phase-lock.ts:116-149; returns arms, queen, history and the value pushed
adjustPhaseCoherence(a, q, history) ==
  LET coherence == Coherence(a, q)
      q1 == [q EXCEPT !.coherence = coherence,
                      !.angularMomentum = AngularMomentum(a)]
      r  == calculateTorqueRedistribution(a, q1)
  IN  [arms |-> r.arms, queen |-> r.queen,
       history |-> pushCoherence(history, coherence),
       pushed |-> coherence]

\* a variant that derives the wobble from the flagged arms
detectWobble_Coupled(a, meanPhase) ==
  LET dev(n) == angleDifference(a[n].phase, meanPhase)
      sumSq  == SumSeq([i \in 1..Len(ArmOrder) |-> dev(ArmOrder[i]) * dev(ArmOrder[i])])
      affectedArms == {n \in ArmNames : Abs(dev(n)) > Deg(45)}
  IN  [ wobbleDetected |-> affectedArms # {},
        variance       |-> sumSq \div Len(ArmOrder),
        affectedArms   |-> affectedArms ]

\* phase-lock.ts:181-209, for one value of the circular mean
detectWobble(a, meanPhase) ==
  LET dev(n) == angleDifference(a[n].phase, meanPhase)
      sumSq  == SumSeq([i \in 1..Len(ArmOrder) |-> dev(ArmOrder[i]) * dev(ArmOrder[i])])
  IN  [ \* sqrt(sumSq / length) > 30
        wobbleDetected |-> sumSq > Len(ArmOrder) * Deg(30) * Deg(30),
        variance       |-> sumSq \div Len(ArmOrder),
        affectedArms   |-> {n \in ArmNames : Abs(dev(n)) > Deg(45)} ]

\* the values the circular mean of the current phases can take
MeanPhases(a) == circularMean([i \in 1..Len(ArmOrder) |-> a[ArmOrder[i]].phase])

\* a variant that registers every arm on the queen's phase
InitialArm_Aligned(n) ==
  [name |-> n,
   phase |-> Deg(45),
   amplitude |-> AmpScale,
   frequency |-> IF n = "qwen" THEN 10 ELSE IF n = "gemma" THEN 5
                 ELSE IF n = "deepseek" THEN 7 ELSE 12,
   lastUpdate |-> 0,
   health |-> "online"]

\* phase-lock.ts:43-79: the four arms the constructor registers
InitialArm(n) ==
  [name |-> n,
   phase |-> IF n = "qwen" THEN Deg(0) ELSE IF n = "gemma" THEN Deg(90)
             ELSE IF n = "deepseek" THEN Deg(180) ELSE Deg(270),
   amplitude |-> AmpScale,
   frequency |-> IF n = "qwen" THEN 10 ELSE IF n = "gemma" THEN 5
                 ELSE IF n = "deepseek" THEN 7 ELSE 12,
   lastUpdate |-> 0,
   health |-> "online"]

\* phase-lock.ts:82-88
InitialQueen ==
  [phase |-> Deg(45), coherence |-> CohScale, angularMomentum |-> MomScale,
   torqueRedistribution |-> 0, timestamp |-> 0]

\* trinode.ts:54-74
InitialBridge ==
  [reflex  |-> [online |-> FALSE, lastUpdate |-> 0],
   oracle  |-> [online |-> FALSE, lastUpdate |-> 0],
   warfare |-> [online |-> FALSE, lastUpdate |-> 0],
   lambdaHistory |-> <<>>,
   lastConsensus |-> [set |-> FALSE, lambda |-> 0]]

NoCall ==
  [op |-> "none", armName |-> "none", phase |-> 0, amplitude |-> 0,
   health |-> "online", outcome |-> "none", wobble |-> FALSE, affected |-> {}]

NoReport == [taken |-> FALSE]

\* no pipeline has run yet
NoPipeline == [site |-> "none"]

\* no angle difference has been asked for yet
NoProbe == [asked |-> FALSE]

\* part_006:242: `let trinodeState: TriNodeState | null = null`
NoState == [published |-> FALSE]

\* no health check has been started
NoChecks == [started |-> FALSE]

\* no mutation of the sequential pipeline router has been called
NoStore == [called |-> FALSE]

\* no WebSocket request has arrived
NoSocket == [requested |-> FALSE]

\* the state the constructors leave; the clock starts at 0
Init ==
  /\ arms = [n \in ArmNames |-> InitialArm(n)]
  /\ queen = InitialQueen
  /\ coherenceHistory = <<>>
  /\ bridge = InitialBridge
  /\ now = 0
  /\ lastCall = NoCall
  /\ cohLog = <<>>
  /\ lamLog = <<>>
  /\ corrections = 0
  /\ report = NoReport
  /\ recomputed = [at |-> 0, by |-> "none"]
  /\ pipeline = NoPipeline
  /\ probe = NoProbe
  /\ trinodeState = NoState
  /\ checks = NoChecks
  /\ db = NoStore
  /\ ws = NoSocket

\* a variant that accepts any name
Registered_Any(armName) == TRUE

\* phase-lock.ts:100: this.arms.get(armName) finds an arm
Registered(armName) == armName \in ArmNames

\* a variant that raises an error
UnknownArmOutcome_Throws == "threw"

\* phase-lock.ts:101: `if (!arm) return;` ends the call normally
UnknownArmOutcome == "returned"

\* a variant that writes the arm and leaves the recompute for later
updateArmState_Deferred(armName, phase, amplitude, health) ==
  /\ now' = now + 1
  /\ IF ~Registered(armName)
     THEN UNCHANGED arms
     ELSE arms' = [arms EXCEPT ![armName] =
                     [@ EXCEPT !.phase = JSRem(phase, FullTurn),
                               !.amplitude = Clamp01(amplitude),
                               !.health = health,
                               !.lastUpdate = now + 1]]
  /\ lastCall' = [NoCall EXCEPT !.op = "updateArmState", !.armName = armName,
                    !.phase = phase, !.amplitude = amplitude,
                    !.health = health, !.outcome = UnknownArmOutcome]
  /\ UNCHANGED <<queen, coherenceHistory, cohLog, recomputed, bridge, lamLog,
                 corrections, report, pipeline, probe,
                 trinodeState, checks, db, ws>>

\* phase-lock.ts:94-110.  The call reads the clock once; the clock has
\* advanced since the previous operation.  lastCall records the arguments
\* and how the call ended ("returned": normally, "threw": with an error).
updateArmState(armName, phase, amplitude, health) ==
  /\ now' = now + 1
  /\ IF ~Registered(armName)
     THEN \* if (!arm) return;
          /\ lastCall' = [NoCall EXCEPT !.op = "updateArmState", !.armName = armName,
                            !.phase = phase, !.amplitude = amplitude,
                            !.health = health, !.outcome = UnknownArmOutcome]
          /\ UNCHANGED <<arms, queen, coherenceHistory, cohLog, recomputed>>
     ELSE LET written ==
                [arms EXCEPT ![armName] =
                   [@ EXCEPT !.phase = JSRem(phase, FullTurn),
                             !.amplitude = Clamp01(amplitude),
                             !.health = health,
                             !.lastUpdate = now + 1]]
              r == adjustPhaseCoherence(written, queen, coherenceHistory)
          IN  /\ arms' = r.arms
              /\ queen' = r.queen
              /\ coherenceHistory' = r.history
              /\ cohLog' = Append(cohLog, r.pushed)
              /\ recomputed' = [at |-> now + 1, by |-> armName]
              /\ lastCall' = [NoCall EXCEPT !.op = "updateArmState", !.armName = armName,
                                !.phase = phase, !.amplitude = amplitude,
                                !.health = health, !.outcome = "returned"]
  /\ UNCHANGED <<bridge, lamLog, corrections, report, pipeline, probe,
                trinodeState, checks, db, ws>>

\* a variant that moves the arm a fifth of the way
CorrectedPhase_Fifth(phase, q) ==
  JSRem(phase + angleDifference(q.phase + Deg(90), phase) \div 5, FullTurn)

\* phase-lock.ts:226-236: one arm's phase after the 10% correction
CorrectedPhase(phase, q) ==
  LET targetPhase == q.phase + Deg(90)
      correction  == angleDifference(targetPhase, phase) \div 10
  IN  JSRem(phase + correction, FullTurn)

\* a variant that recomputes the coherence whether or not there is a wobble
selfCorrect_AlwaysRecompute ==
  \E meanPhase \in MeanPhases(arms) :
    LET wobble == detectWobble(arms, meanPhase)
        r == adjustPhaseCoherence(arms, queen, coherenceHistory)
    IN  /\ now' = now + 1
        /\ corrections' = corrections + 1
        /\ lastCall' = [NoCall EXCEPT !.op = "selfCorrect", !.outcome = "returned",
                          !.wobble = wobble.wobbleDetected,
                          !.affected = wobble.affectedArms]
        /\ arms' = r.arms
        /\ queen' = r.queen
        /\ coherenceHistory' = r.history
        /\ cohLog' = Append(cohLog, r.pushed)
        /\ recomputed' = [at |-> now + 1, by |-> "selfCorrect"]
        /\ UNCHANGED <<bridge, lamLog, report, pipeline, probe,
                trinodeState, checks, db, ws>>

\* phase-lock.ts:215-240
selfCorrect ==
  \E meanPhase \in MeanPhases(arms) :
    LET wobble == detectWobble(arms, meanPhase)
    IN  /\ now' = now + 1
        /\ corrections' = corrections + 1
        /\ lastCall' = [NoCall EXCEPT !.op = "selfCorrect", !.outcome = "returned",
                          !.wobble = wobble.wobbleDetected,
                          !.affected = wobble.affectedArms]
        /\ IF ~wobble.wobbleDetected
           THEN UNCHANGED <<arms, queen, coherenceHistory, cohLog, recomputed>>
           ELSE LET nudged ==
                      [n \in ArmNames |->
                         IF n \in wobble.affectedArms
                         THEN [arms[n] EXCEPT !.phase = CorrectedPhase(@, queen)]
                         ELSE arms[n]]
                    r == adjustPhaseCoherence(nudged, queen, coherenceHistory)
                IN  /\ arms' = r.arms
                    /\ queen' = r.queen
                    /\ coherenceHistory' = r.history
                    /\ cohLog' = Append(cohLog, r.pushed)
                    /\ recomputed' = [at |-> now + 1, by |-> "selfCorrect"]
        /\ UNCHANGED <<bridge, lamLog, report, pipeline, probe,
                trinodeState, checks, db, ws>>

(* ------------------------- engine specification ----------------------- *)

\* phases below 0, inside and above 360; amplitudes below 0, inside and
\* above 1; every health; every registered arm and one unregistered name
UpdatePayloads ==
  { [phase |-> Deg(45),  amplitude |-> AmpScale \div 2, health |-> "online"],
    [phase |-> Deg(400), amplitude |-> (3 * AmpScale) \div 2, health |-> "degraded"],
    [phase |-> Deg(-90), amplitude |-> -(AmpScale \div 2), health |-> "offline"] }

UpdateNames == ArmNames \cup {"unregistered"}

UpdateArm ==
  \E n \in UpdateNames, i \in UpdatePayloads :
    updateArmState(n, i.phase, i.amplitude, i.health)

SelfCorrect ==
  /\ corrections < MaxSelfCorrect
  /\ selfCorrect

Next ==
  /\ now < MaxClock
  /\ (UpdateArm \/ SelfCorrect)

Spec == Init /\ [][Next]_vars

\* phase-lock.ts:245-275.  The report is recorded as a reader sees it at the
\* moment of the call; `recomputed` is carried along as the stamp of the
\* queen values in it.
getReport ==
  \E meanPhase \in MeanPhases(arms) :
    LET wobble == detectWobble(arms, meanPhase)
        onlineCount == Cardinality({n \in ArmNames : arms[n].health = "online"})
    IN  /\ now' = now + 1
        /\ report' =
             [taken |-> TRUE,
              queen |-> queen,
              arms |-> arms,
              systemHealth |-> IF onlineCount = 4 THEN "optimal"
                               ELSE IF onlineCount >= 2 THEN "degraded"
                               ELSE "critical",
              \* the average, as the sum and the number of values averaged
              coherenceScore |-> IF Len(coherenceHistory) > 0
                                 THEN [sum |-> SumSeq(coherenceHistory),
                                       count |-> Len(coherenceHistory)]
                                 ELSE [sum |-> CohScale, count |-> 1],
              wobbleDetected |-> wobble.wobbleDetected,
              selfCorrectionActive |-> wobble.wobbleDetected,
              recomputed |-> recomputed]
        /\ lastCall' = [NoCall EXCEPT !.op = "getReport", !.outcome = "returned"]
        /\ UNCHANGED <<arms, queen, coherenceHistory, bridge, cohLog, lamLog,
                       corrections, recomputed, pipeline, probe,
                       trinodeState, checks, db, ws>>

\* phase-lock.ts:268-275: `queen: this.queen` and the elements of `arms`
\* are the synchronizer's own objects, not copies, and updateArmState,
\* selfCorrect and adjustPhaseCoherence assign to the fields of those same
\* objects.  What a caller holding the last report reads through it now:
\* the current queen and arms, and the scalars computed at the call.
HeldReport ==
  IF report.taken THEN [report EXCEPT !.queen = queen, !.arms = arms]
  ELSE report

(* ---------------------------- TriNodeLLMBridge ------------------------ *)

\* trinode.ts:214, 232, 250: the length of each node's response to a query
\* of the given length (prefix + query.substring(0, 30) + "...")
ResponseLength(node, queryLength) ==
  (IF node = "reflex" THEN 27 ELSE IF node = "oracle" THEN 26 ELSE 35)
    + Min(queryLength, 30) + 3

\* trinode.ts:264-274: min(1.667 + (total length / 300) * 0.5, 2.2)
calculateLambda(reflex, oracle, warfare) ==
  Min((1667 * LambdaScale) \div 1000 + ((reflex + oracle + warfare) * LambdaScale) \div 600,
      (22 * LambdaScale) \div 10)

\* a variant that drops the newest entry instead of the oldest
pushLambda_DropNewest(history, lambda) ==
  LET pushed == Append(history, lambda)
  IN  IF Len(pushed) > 100 THEN SubSeq(pushed, 1, Len(pushed) - 1) ELSE pushed

\* trinode.ts:154-157
pushLambda(history, lambda) ==
  LET pushed == Append(history, lambda)
  IN  IF Len(pushed) > 100 THEN Tail(pushed) ELSE pushed

\* trinode.ts:134-208 for a query string of the given length: the three
\* nodes answer (and are marked online), the lambda is computed, stored in
\* the history and published as the last consensus
handleQuery(queryLength) ==
  LET lambda == calculateLambda(ResponseLength("reflex", queryLength),
                                ResponseLength("oracle", queryLength),
                                ResponseLength("warfare", queryLength))
  IN  /\ now' = now + 1
      /\ bridge' =
           [bridge EXCEPT !.reflex  = [online |-> TRUE, lastUpdate |-> now + 1],
                          !.oracle  = [online |-> TRUE, lastUpdate |-> now + 1],
                          !.warfare = [online |-> TRUE, lastUpdate |-> now + 1],
                          !.lambdaHistory = pushLambda(@, lambda),
                          !.lastConsensus = [set |-> TRUE, lambda |-> lambda]]
      /\ lamLog' = Append(lamLog, lambda)
      /\ lastCall' = [NoCall EXCEPT !.op = "handleQuery", !.outcome = "returned"]
      /\ UNCHANGED <<arms, queen, coherenceHistory, cohLog, corrections,
                     report, recomputed, pipeline, probe,
                     trinodeState, checks, db, ws>>

(* ------------------------ alignment specification --------------------- *)

\* phases that put an arm on the queen's phase (405 = 45 + 360) or opposite
\* to it (225 = 45 + 180)
AlignPayloads ==
  { [phase |-> Deg(405), amplitude |-> AmpScale, health |-> "online"],
    [phase |-> Deg(225), amplitude |-> AmpScale \div 2, health |-> "degraded"] }

AlignArm ==
  \E n \in ArmNames, i \in AlignPayloads :
    updateArmState(n, i.phase, i.amplitude, i.health)

NextAligned ==
  /\ now < MaxAlignOps
  /\ (AlignArm \/ SelfCorrect)

SpecAligned == Init /\ [][NextAligned]_vars

(* -------------------------- reader specification ---------------------- *)

ReadPayloads ==
  { [phase |-> Deg(45),  amplitude |-> AmpScale \div 2, health |-> "online"],
    [phase |-> Deg(400), amplitude |-> (3 * AmpScale) \div 2, health |-> "degraded"] }

ReaderUpdates ==
  \E n \in UpdateNames, i \in ReadPayloads :
    updateArmState(n, i.phase, i.amplitude, i.health)

NextReader ==
  /\ now < MaxReadOps
  /\ (ReaderUpdates \/ SelfCorrect \/ getReport)

SpecReader == Init /\ [][NextReader]_vars

(* ------------------------- history specification ---------------------- *)

\* The two drivers take turns.
\* a driver that walks round the arms with phases that differ from one
\* call to the next, so that successive coherence values differ
DriveUpdate ==
  LET k == Len(cohLog)
  IN  /\ k < MaxPushes
      /\ k <= Len(lamLog)
      /\ updateArmState(ArmOrder[(k % Len(ArmOrder)) + 1], Deg((37 * k) % 360),
                        AmpScale, "online")

\* a driver whose queries grow and wrap, so that successive lambdas differ
DriveQuery ==
  LET k == Len(lamLog)
  IN  /\ k < MaxPushes
      /\ k < Len(cohLog)
      /\ handleQuery(k % 31)

NextHistory == DriveUpdate \/ DriveQuery

SpecHistory == Init /\ [][NextHistory]_vars

(* --------------------------- consensus pipelines ---------------------- *)

\* stage lambdas are in units of 1/StageScale; a consensus lambda is in
\* units of 1/ConsensusScale, so that the weights 0.2, 0.3 and 0.5 are the
\* whole numbers 2, 3 and 5
StageScale == 10 ^ 4
ConsensusScale == 10 * StageScale

\* the ceiling 2.2 of a consensus lambda (part_003:232, part_003:152)
MaxAwakening == (22 * ConsensusScale) \div 10

\* part_003:225-233: Math.min(reflex*0.2 + oracle*0.3 + warfare*0.5, 2.2)
calculateConsensusLambda(reflex, oracle, warfare) ==
  Min(2 * reflex + 3 * oracle + 5 * warfare, MaxAwakening)

\* part_003:145-152: the consensus lambda of three stage lambdas and the
\* awakening flag decided from it
PipelineVerdict(reflex, oracle, warfare) ==
  LET consensusLambda == calculateConsensusLambda(reflex, oracle, warfare)
  IN  [consensusLambda |-> consensusLambda,
       isAwakened |-> consensusLambda > MaxAwakening]

\* values Math.random() returns, in units of 1/StageScale: the least, a
\* middle one and one close to the excluded upper end 1
RandomSamples == {0, StageScale \div 2, StageScale - 40}

\* part_003:180, 198, 216: each stage's lambda from its random draw
StageLambda(stage, random) ==
  IF stage = "reflex" THEN (12 * StageScale) \div 10 + (3 * random) \div 10
  ELSE IF stage = "oracle" THEN (15 * StageScale) \div 10 + random \div 4
  ELSE (17 * StageScale) \div 10 + (3 * random) \div 10

\* part_003:85-165 with the three draws of the stages
executePipeline(r1, r2, r3) ==
  LET reflexLambda  == StageLambda("reflex", r1)
      oracleLambda  == StageLambda("oracle", r2)
      warfareLambda == StageLambda("warfare", r3)
      verdict == PipelineVerdict(reflexLambda, oracleLambda, warfareLambda)
  IN  /\ now' = now + 1
      /\ pipeline' = [site |-> "TriNodePipeline",
                      first |-> reflexLambda, second |-> oracleLambda,
                      third |-> warfareLambda,
                      consensusLambda |-> verdict.consensusLambda,
                      isAwakened |-> verdict.isAwakened]
      /\ lastCall' = [NoCall EXCEPT !.op = "executePipeline", !.outcome = "returned"]
      /\ UNCHANGED <<arms, queen, coherenceHistory, bridge, cohLog, lamLog,
                     corrections, report, recomputed, probe,
                     trinodeState, checks, db, ws>>

\* local-models.ts:154-166 for a response of the given length that splits
\* into the given number of non-blank sentences
calculateCoherence(content) ==
  IF content.length = 0 THEN 0
  ELSE LET lengthScore ==
             Min((content.length * StageScale) \div (50 * Max(content.sentences, 1)),
                 StageScale)
           varietyScore == Min((content.sentences * StageScale) \div 5, StageScale)
       IN  (lengthScore + varietyScore) \div 2

\* a variant with a base of 2.0 and no cap
LocalModelClient_calculateLambda_Uncapped(content, duration) ==
  2 * StageScale + calculateCoherence(content) \div 2
    + (Max(0, StageScale - (duration * StageScale) \div 5000) * 3) \div 10

\* local-models.ts:137-149; the duration is in milliseconds
LocalModelClient_calculateLambda(content, duration) ==
  LET coherenceScore == calculateCoherence(content)
      speedBonus == Max(0, StageScale - (duration * StageScale) \div 5000)
      lambda == StageScale + coherenceScore \div 2 + (speedBonus * 3) \div 10
  IN  Min(lambda, (22 * StageScale) \div 10)

\* `lambda || fallback`: the fallback replaces a lambda that is 0 or missing
OrDefault(lambda, fallback) == IF lambda = 0 THEN fallback ELSE lambda

\* trinode-sequential.ts:224-229
SequentialConsensus(qwen, gemma, deepseek) ==
  2 * OrDefault(qwen, (15 * StageScale) \div 10)
    + 3 * OrDefault(gemma, (16 * StageScale) \div 10)
    + 5 * OrDefault(deepseek, (17 * StageScale) \div 10)

\* part_004:197-201
WebSocketConsensus(qwen, gemma, deepseek) ==
  2 * OrDefault(qwen, (15 * StageScale) \div 10)
    + 3 * OrDefault(gemma, (16 * StageScale) \div 10)
    + 5 * OrDefault(deepseek, (17 * StageScale) \div 10)

\* the three model responses of one run: executeQwen, executeGemma and
\* executeDeepSeek each return calculateLambda(content, duration)
\* (local-models.ts:120-125)
ModelLambdas(responses) ==
  [i \in 1..3 |->
     LocalModelClient_calculateLambda(responses[i].content, responses[i].duration)]

\* trinode-sequential.ts:199-276 for three model responses
executeSequentialPipeline(responses) ==
  LET lambdas == ModelLambdas(responses)
      consensusLambda == SequentialConsensus(lambdas[1], lambdas[2], lambdas[3])
  IN  /\ now' = now + 1
      /\ pipeline' = [site |-> "localAIRouter",
                      first |-> lambdas[1], second |-> lambdas[2],
                      third |-> lambdas[3],
                      consensusLambda |-> consensusLambda,
                      isAwakened |-> consensusLambda > MaxAwakening]
      /\ lastCall' = [NoCall EXCEPT !.op = "executeSequentialPipeline",
                        !.outcome = "returned"]
      /\ UNCHANGED <<arms, queen, coherenceHistory, bridge, cohLog, lamLog,
                     corrections, report, recomputed, probe,
                     trinodeState, checks, db, ws>>

\* part_004:82-232 for three model responses
handlePipelineRequest(responses) ==
  LET lambdas == ModelLambdas(responses)
      consensusLambda == WebSocketConsensus(lambdas[1], lambdas[2], lambdas[3])
  IN  /\ now' = now + 1
      /\ pipeline' = [site |-> "WebSocket",
                      first |-> lambdas[1], second |-> lambdas[2],
                      third |-> lambdas[3],
                      consensusLambda |-> consensusLambda,
                      isAwakened |-> consensusLambda > MaxAwakening]
      /\ lastCall' = [NoCall EXCEPT !.op = "handlePipelineRequest",
                        !.outcome = "returned"]
      /\ UNCHANGED <<arms, queen, coherenceHistory, bridge, cohLog, lamLog,
                     corrections, report, recomputed, probe,
                     trinodeState, checks, db, ws>>

(* ------------------------ pipeline specification ---------------------- *)

\* responses: an empty one, a short one, and one long enough for a
\* coherence of 1
Contents ==
  { [length |-> 0, sentences |-> 0], [length |-> 25, sentences |-> 1],
    [length |-> 500, sentences |-> 5] }

\* an immediate answer, a fast one and one slower than the 5 s horizon
Durations == {0, 2500, 6000}

Responses == [content : Contents, duration : Durations]

RunTriNodePipeline ==
  \E r1 \in RandomSamples, r2 \in RandomSamples, r3 \in RandomSamples :
    executePipeline(r1, r2, r3)

RunLocalAI ==
  \E q \in Responses, g \in Responses, d \in Responses :
    executeSequentialPipeline(<<q, g, d>>)

RunWebSocket ==
  \E q \in Responses, g \in Responses, d \in Responses :
    handlePipelineRequest(<<q, g, d>>)

\* one execution per behaviour: an execution builds its own state and
\* leaves nothing behind for the next
NextPipelines ==
  /\ pipeline = NoPipeline
  /\ (RunTriNodePipeline \/ RunLocalAI \/ RunWebSocket)

SpecPipelines == Init /\ [][NextPipelines]_vars

(* ------------------------- verdict specification ---------------------- *)

\* stage outputs for the consensus arithmetic alone: 1.0, 2.0, 2.2, 2.5
\* and 3.0
StageOutputs ==
  {StageScale, 2 * StageScale, (22 * StageScale) \div 10,
   (25 * StageScale) \div 10, 3 * StageScale}

\* part_003:145-152 applied to three given stage outputs
DetermineAwakening ==
  \E reflex \in StageOutputs, oracle \in StageOutputs, warfare \in StageOutputs :
    LET verdict == PipelineVerdict(reflex, oracle, warfare)
    IN  /\ pipeline = NoPipeline
        /\ now' = now + 1
        /\ pipeline' = [site |-> "verdict",
                        first |-> reflex, second |-> oracle, third |-> warfare,
                        consensusLambda |-> verdict.consensusLambda,
                        isAwakened |-> verdict.isAwakened]
        /\ lastCall' = [NoCall EXCEPT !.op = "verdict", !.outcome = "returned"]
        /\ UNCHANGED <<arms, queen, coherenceHistory, bridge, cohLog, lamLog,
                       corrections, report, recomputed, probe,
                       trinodeState, checks, db, ws>>

SpecVerdict == Init /\ [][DetermineAwakening]_vars

(* -------------------------- stage specification ----------------------- *)

\* a variant whose comparisons include the boundary
interpretLambda_Inclusive(lambda) ==
  IF 10 * lambda <= 5 * StageScale THEN "DORMANT"
  ELSE IF lambda <= StageScale THEN "RESISTANCE"
  ELSE IF 1000 * lambda <= 1667 * StageScale THEN "VERIFICATION"
  ELSE IF 10000 * lambda <= 17333 * StageScale THEN "THRESHOLD"
  ELSE IF 10 * lambda <= 22 * StageScale THEN "RECOGNITION"
  ELSE "AWAKENED"

\* part_003:253-298, the stage name it returns; lambda in units of
\* 1/StageScale
interpretLambda(lambda) ==
  IF 10 * lambda < 5 * StageScale THEN "DORMANT"
  ELSE IF lambda < StageScale THEN "RESISTANCE"
  ELSE IF 1000 * lambda < 1667 * StageScale THEN "VERIFICATION"
  ELSE IF 10000 * lambda < 17333 * StageScale THEN "THRESHOLD"
  ELSE IF 10 * lambda < 22 * StageScale THEN "RECOGNITION"
  ELSE "AWAKENED"

\* 0.5, 1.0, 1.667, 1.7333, 2.0 and 2.2
StageMarks ==
  {(5 * StageScale) \div 10, StageScale, (1667 * StageScale) \div 1000,
   (17333 * StageScale) \div 10000, 2 * StageScale, (22 * StageScale) \div 10}

\* every mark, its two neighbours, and values far outside: -1, 0 and 3
LambdaProbes ==
  {m + d : m \in StageMarks, d \in {-1, 0, 1}} \cup {-StageScale, 0, 3 * StageScale}

\* interpretLambda applied to two values
Classify ==
  \E l1 \in LambdaProbes, l2 \in LambdaProbes :
    /\ probe = NoProbe
    /\ now' = now + 1
    /\ probe' = [asked |-> TRUE, fn |-> "interpretLambda",
                 lambda |-> <<l1, l2>>,
                 stage |-> <<interpretLambda(l1), interpretLambda(l2)>>]
    /\ lastCall' = [NoCall EXCEPT !.op = "interpretLambda", !.outcome = "returned"]
    /\ UNCHANGED <<arms, queen, coherenceHistory, bridge, cohLog, lamLog,
                   corrections, report, recomputed, pipeline,
                   trinodeState, checks, db, ws>>

SpecStages == Init /\ [][Classify]_vars

(* -------------------------- wobble specification ---------------------- *)

\* operations per run of the wobble specification
MaxWobbleOps == 5

\* updates that gather the arms: with gemma at 0 and deepseek and os at 64
\* the arms form two pairs 64 degrees apart; with deepseek back at 0 three
\* arms coincide and os stands 64 degrees off
WobbleUpdates ==
  { [armName |-> "gemma", phase |-> Deg(0)],
    [armName |-> "deepseek", phase |-> Deg(64)],
    [armName |-> "os", phase |-> Deg(64)],
    [armName |-> "deepseek", phase |-> Deg(0)] }

GatherArm ==
  \E u \in WobbleUpdates : updateArmState(u.armName, u.phase, AmpScale, "online")

NextWobble ==
  /\ now < MaxWobbleOps
  /\ (GatherArm \/ SelfCorrect \/ getReport)

SpecWobble == Init /\ [][NextWobble]_vars

(* -------------------------- angle specification ----------------------- *)

\* every fifth whole degree of [0, 360)
ProbeAngles == {Deg(5 * k) : k \in 0..71}

\* angleDifference asked for a pair of angles, in both orders and for the
\* first angle against itself
AskAngleDifference ==
  \E a \in ProbeAngles, b \in ProbeAngles :
    /\ probe = NoProbe
    /\ now' = now + 1
    /\ probe' = [asked |-> TRUE, fn |-> "angleDifference",
                 angle1 |-> a, angle2 |-> b,
                 forward |-> angleDifference(a, b),
                 backward |-> angleDifference(b, a),
                 self |-> angleDifference(a, a)]
    /\ lastCall' = [NoCall EXCEPT !.op = "angleDifference", !.outcome = "returned"]
    /\ UNCHANGED <<arms, queen, coherenceHistory, bridge, cohLog, lamLog,
                   corrections, report, recomputed, pipeline,
                   trinodeState, checks, db, ws>>

SpecAngles == Init /\ [][AskAngleDifference]_vars

(* --------------------------- trinode router --------------------------- *)

\* part_006:424-427 for a state with the given online flags
updateTrinodeState(newState) ==
  /\ now' = now + 1
  /\ trinodeState' = [published |-> TRUE, reflex |-> newState[1],
                      oracle |-> newState[2], warfare |-> newState[3]]
  /\ lastCall' = [NoCall EXCEPT !.op = "updateTrinodeState", !.outcome = "returned"]
  /\ UNCHANGED <<arms, queen, coherenceHistory, bridge, cohLog, lamLog,
                 corrections, report, recomputed, pipeline, probe, checks, db, ws>>

\* part_006:322: the systemHealth answered while trinodeState is null
UnpublishedHealth == "degraded"

\* a variant that calls two online nodes "optimal"
BridgeHealth_Lenient(onlineCount) ==
  IF onlineCount >= 2 THEN "optimal" ELSE "critical"

\* part_006:359-364
BridgeHealth(onlineCount) ==
  IF onlineCount = 3 THEN "optimal"
  ELSE IF onlineCount = 2 THEN "degraded"
  ELSE "critical"

\* part_006:316-367; the answer is kept in probe
getNodeHealth ==
  /\ now' = now + 1
  /\ probe' =
       IF ~trinodeState.published
       THEN \* if (!trinodeState) return { ... systemHealth: "degraded" }
            [asked |-> TRUE, fn |-> "getNodeHealth",
             status |-> <<"unknown", "unknown", "unknown">>,
             systemHealth |-> UnpublishedHealth]
       ELSE LET flags == <<trinodeState.reflex, trinodeState.oracle,
                           trinodeState.warfare>>
                onlineCount == Cardinality({i \in 1..3 : flags[i]})
            IN  [asked |-> TRUE, fn |-> "getNodeHealth",
                 status |-> [i \in 1..3 |-> IF flags[i] THEN "online" ELSE "offline"],
                 systemHealth |-> BridgeHealth(onlineCount)]
  /\ lastCall' = [NoCall EXCEPT !.op = "getNodeHealth", !.outcome = "returned"]
  /\ UNCHANGED <<arms, queen, coherenceHistory, bridge, cohLog, lamLog,
                 corrections, report, recomputed, pipeline, trinodeState,
                 checks, db, ws>>

(* -------------------------- health specification ---------------------- *)

\* operations per run of the health specification
MaxHealthOps == 6

\* the arms leave the online state one after the other, in Map order, the
\* first two as offline and the last two as degraded
TakeArmDown ==
  LET k == Cardinality({n \in ArmNames : arms[n].health # "online"})
  IN  /\ k < Len(ArmOrder)
      /\ updateArmState(ArmOrder[k + 1], Deg(45), AmpScale,
                        IF k < 2 THEN "offline" ELSE "degraded")

\* bridge states with 0, 1, 2 and 3 nodes online
PublishState ==
  \E newState \in {<<FALSE, FALSE, FALSE>>, <<FALSE, TRUE, FALSE>>,
                   <<TRUE, FALSE, TRUE>>, <<TRUE, TRUE, TRUE>>} :
    updateTrinodeState(newState)

NextHealth ==
  /\ now < MaxHealthOps
  /\ (TakeArmDown \/ getReport \/ PublishState \/ getNodeHealth)

SpecHealth == Init /\ [][NextHealth]_vars

(* -------------------------- torque specification ---------------------- *)

\* operations per run of the torque specification
MaxTorqueOps == 4

\* an arm is written online with amplitude 0.5, or taken down with
\* amplitude 1 (above the range: 1.5) as offline (qwen, gemma) or degraded
\* (deepseek, os)
TorqueWrite ==
  \E n \in ArmNames :
    \/ updateArmState(n, Deg(45), AmpScale \div 2, "online")
    \/ updateArmState(n, Deg(45), (3 * AmpScale) \div 2,
                      IF n \in {"qwen", "gemma"} THEN "offline" ELSE "degraded")

NextTorque ==
  /\ now < MaxTorqueOps
  /\ TorqueWrite

SpecTorque == Init /\ [][NextTorque]_vars

(* ------------------------ stage table specification ------------------- *)

\* part_006:397-400: the lambda of the trinode router's calculateLambda
\* procedure, in units of 1/StageScale; truthDensity, coherence and
\* wholeness are in hundredths, resistanceFactor in tenths, and a
\* resistanceFactor of 0 stands for one that was not given
RouterLambda(truthDensity, coherence, wholeness, resistanceFactor) ==
  LET resistance == IF resistanceFactor = 0 THEN 10 ELSE resistanceFactor
  IN  (((truthDensity * coherence * wholeness) \div 100) * StageScale)
        \div (resistance * 1000)

\* part_006:402-407: the stage the procedure gives its lambda
RouterStage(lambda) ==
  IF 10 * lambda < 5 * StageScale THEN "DORMANT"
  ELSE IF lambda < StageScale THEN "RESISTANCE"
  ELSE IF 100 * lambda < 167 * StageScale THEN "VERIFICATION"
  ELSE IF 10 * lambda < 22 * StageScale THEN "RECOGNITION"
  ELSE "AWAKENED"

\* truthDensity 0, 0.05, ..., 1; coherence 0.5 or 1; wholeness 0.8 or 1;
\* resistanceFactor absent, 0.1, 0.5 or 2
RouterInputs ==
  [truthDensity : {5 * k : k \in 0..20}, coherence : {50, 100},
   wholeness : {80, 100}, resistanceFactor : {0, 1, 5, 20}]

\* part_006:385-419 for one input; next to the procedure's answer the
\* stage interpretLambda gives the returned lambda is recorded
RouterCalculateLambda ==
  \E input \in RouterInputs :
    LET lambda == RouterLambda(input.truthDensity, input.coherence,
                               input.wholeness, input.resistanceFactor)
        returned == Min(lambda, (22 * StageScale) \div 10)
    IN  /\ probe = NoProbe
        /\ now' = now + 1
        /\ probe' = [asked |-> TRUE, fn |-> "calculateLambda",
                     input |-> input,
                     lambda |-> returned,
                     stage |-> RouterStage(lambda),
                     interpreted |-> interpretLambda(returned)]
        /\ lastCall' = [NoCall EXCEPT !.op = "calculateLambda", !.outcome = "returned"]
        /\ UNCHANGED <<arms, queen, coherenceHistory, bridge, cohLog, lamLog,
                       corrections, report, recomputed, pipeline, trinodeState,
                       checks, db, ws>>

SpecStageTables == Init /\ [][RouterCalculateLambda]_vars

(* ---------------- local model health check (local-models.ts) ---------- *)

\* The three clients the constructor registers, in Map insertion order.
Models == {"qwen", "gemma", "deepseek"}

AllFalse == [m \in Models |-> FALSE]

\* healthCheck as awaiting every request would behave: the object returned
\* already holds each request's outcome.
healthCheck_Awaited(up) ==
  [started |-> TRUE, up |-> up, pending |-> {},
   health |-> [m \in Models |-> m \in up],
   read |-> [m \in Models |-> m \in up]]

\* healthCheck: builds `checks` all false, starts one async callback per
\* client with forEach (each runs up to its `await client.get` and is not
\* awaited), and returns `checks`.  `health` is the object's live fields,
\* `read` their value at the return, `pending` the callbacks still waiting for
\* their request, `up` the endpoints that answer /health.
healthCheck(up) ==
  [started |-> TRUE, up |-> up, pending |-> Models,
   health |-> AllFalse, read |-> AllFalse]

\* checkModelHealth: awaits healthCheck() and hands `health` on.
CheckModelHealth ==
  /\ checks = NoChecks
  /\ \E up \in SUBSET Models : checks' = healthCheck(up)
  /\ UNCHANGED <<arms, queen, coherenceHistory, bridge, now, lastCall, cohLog,
                 lamLog, corrections, report, recomputed, pipeline, probe,
                 trinodeState, db, ws>>

\* One callback resumes after its request: true on an answer, false on a
\* failure or timeout.
HealthRequestSettles ==
  /\ checks # NoChecks
  /\ \E m \in checks.pending :
       checks' = [checks EXCEPT !.pending = @ \ {m},
                                !.health[m] = (m \in checks.up)]
  /\ UNCHANGED <<arms, queen, coherenceHistory, bridge, now, lastCall, cohLog,
                 lamLog, corrections, report, recomputed, pipeline, probe,
                 trinodeState, db, ws>>

\* An endpoint goes down or comes up while requests are in flight.
EndpointChanges ==
  /\ checks # NoChecks
  /\ checks.pending # {}
  /\ \E m \in Models :
       checks' = [checks EXCEPT !.up = IF m \in @ THEN @ \ {m} ELSE @ \cup {m}]
  /\ UNCHANGED <<arms, queen, coherenceHistory, bridge, now, lastCall, cohLog,
                 lamLog, corrections, report, recomputed, pipeline, probe,
                 trinodeState, db, ws>>

NextModelHealth == CheckModelHealth \/ HealthRequestSettles \/ EndpointChanges

SpecModelHealth == Init /\ [][NextModelHealth]_vars

(* ------- sequential pipeline router (routers/trinode-sequential.ts) ---- *)

\* The pipeline's stages in execution order.
PipelineOrder == <<"reflex", "oracle", "warfare">>

PipelineStages == {PipelineOrder[i] : i \in DOMAIN PipelineOrder}

PipelineIndex(stage) == CHOOSE i \in DOMAIN PipelineOrder : PipelineOrder[i] = stage

\* The values of the `stage` column of lambda_history.
LambdaHistoryStages ==
  {"DORMANT", "RESISTANCE", "VERIFICATION", "RECOGNITION", "AWAKENED"}

\* One entry of the record of what the mutation and its callbacks did.
Event(op, node, at, arg) == [op |-> op, node |-> node, at |-> at, arg |-> arg]

\* The mutation starts: storeQuery is awaited; when it fails the catch returns
\* success: false, otherwise executePipeline is entered and the reflex stage
\* waits for its model.
StartMutation ==
  /\ db = NoStore
  /\ \E stored \in BOOLEAN :
       db' = [called |-> TRUE,
              pc |-> IF stored THEN "reflex" ELSE "returned",
              result |-> IF stored THEN "pending" ELSE "failure",
              lambda |-> [s \in PipelineStages |-> 0],
              cb |-> [s \in PipelineStages |-> "idle"],
              log |-> IF stored
                      THEN <<Event("storeQuery", "none", "completed", "none"),
                             Event("stage", "reflex", "started", "none")>>
                      ELSE <<Event("storeQuery", "none", "failed", "none")>>]
  /\ UNCHANGED <<arms, queen, coherenceHistory, bridge, now, lastCall, cohLog,
                 lamLog, corrections, report, recomputed, pipeline, probe,
                 trinodeState, checks, ws>>

\* What executePipeline does between one stage's model answering and its next
\* await: it calls onProgress without awaiting it, so the callback runs up to
\* its first pending insert (storeResponse), and then either starts the next
\* stage or, after warfare, computes the consensus and returns, whereupon the
\* mutation invokes storeConsensus.
onProgress(stage, lambda) ==
  LET called == Append(db.log, Event("storeResponse", stage, "invoked", "none"))
      last == stage = PipelineOrder[Len(PipelineOrder)]
      next == IF last THEN "storeConsensus" ELSE PipelineOrder[PipelineIndex(stage) + 1]
  IN  [db EXCEPT !.lambda[stage] = lambda,
                 !.cb[stage] = "storeResponse",
                 !.pc = next,
                 !.log = Append(called,
                           IF last
                           THEN Event("storeConsensus", "none", "invoked", "none")
                           ELSE Event("stage", next, "started", "none"))]

\* The least and a large value of Math.random().
StageDraws == {0, StageScale - 40}

\* A stage's model answers with the lambda of its draw.
StageReturns ==
  /\ db # NoStore
  /\ db.pc \in PipelineStages
  /\ \E random \in StageDraws :
       db' = onProgress(db.pc, StageLambda(db.pc, random))
  /\ UNCHANGED <<arms, queen, coherenceHistory, bridge, now, lastCall, cohLog,
                 lamLog, corrections, report, recomputed, pipeline, probe,
                 trinodeState, checks, ws>>

\* The callback's storeResponse insert settles; on success the callback goes
\* on to storeLambda with the stage name interpretLambda gives.  On a failure
\* the callback rejects: nothing awaits or catches its promise, so the runtime
\* either goes on or, where unhandled rejections are fatal, ends the process
\* before the mutation answers.
storeResponseSettles ==
  /\ db # NoStore
  /\ db.pc # "crashed"
  /\ \E stage \in PipelineStages :
       /\ db.cb[stage] = "storeResponse"
       /\ \E stored \in BOOLEAN :
            IF stored
            THEN db' = [db EXCEPT
                   !.cb[stage] = "storeLambda",
                   !.log = @ \o
                     <<Event("storeResponse", stage, "completed", "none"),
                       Event("storeLambda", stage, "invoked",
                             interpretLambda(db.lambda[stage]))>>]
            ELSE \E outcome \in
                    {[db EXCEPT !.cb[stage] = "rejected"],
                     [db EXCEPT !.cb[stage] = "rejected",
                                !.pc = IF @ = "returned" THEN @ ELSE "crashed"]} :
                   db' = [outcome EXCEPT !.log =
                            Append(@, Event("storeResponse", stage, "failed", "none"))]
  /\ UNCHANGED <<arms, queen, coherenceHistory, bridge, now, lastCall, cohLog,
                 lamLog, corrections, report, recomputed, pipeline, probe,
                 trinodeState, checks, ws>>

\* The callback's storeLambda insert settles.
storeLambdaSettles ==
  /\ db # NoStore
  /\ db.pc # "crashed"
  /\ \E stage \in PipelineStages :
       /\ db.cb[stage] = "storeLambda"
       /\ \E stored \in BOOLEAN :
            IF stored
            THEN db' = [db EXCEPT
                   !.cb[stage] = "done",
                   !.log = Append(@, Event("storeLambda", stage, "completed",
                                           interpretLambda(db.lambda[stage])))]
            ELSE \E outcome \in
                    {[db EXCEPT !.cb[stage] = "rejected"],
                     [db EXCEPT !.cb[stage] = "rejected",
                                !.pc = IF @ = "returned" THEN @ ELSE "crashed"]} :
                   db' = [outcome EXCEPT !.log =
                            Append(@, Event("storeLambda", stage, "failed",
                                            interpretLambda(db.lambda[stage])))]
  /\ UNCHANGED <<arms, queen, coherenceHistory, bridge, now, lastCall, cohLog,
                 lamLog, corrections, report, recomputed, pipeline, probe,
                 trinodeState, checks, ws>>

\* The awaited storeConsensus settles and the mutation answers: success: true,
\* or success: false from the catch.
storeConsensusSettles ==
  /\ db # NoStore
  /\ db.pc = "storeConsensus"
  /\ \E stored \in BOOLEAN :
       db' = [db EXCEPT
                !.pc = "returned",
                !.result = IF stored THEN "success" ELSE "failure",
                !.log = Append(@, Event("storeConsensus", "none",
                                        IF stored THEN "completed" ELSE "failed",
                                        "none"))]
  /\ UNCHANGED <<arms, queen, coherenceHistory, bridge, now, lastCall, cohLog,
                 lamLog, corrections, report, recomputed, pipeline, probe,
                 trinodeState, checks, ws>>

NextMutation ==
  \/ StartMutation
  \/ StageReturns
  \/ storeResponseSettles
  \/ storeLambdaSettles
  \/ storeConsensusSettles

SpecMutation == Init /\ [][NextMutation]_vars

(* ---------- WebSocket pipeline streaming (part_004), step by step ------ *)

\* The awaits of handlePipelineRequest in program order.
Awaits ==
  <<"storeQuery", "executeQwen", "storeReflex", "executeGemma", "storeOracle",
    "executeDeepSeek", "storeWarfare", "storeConsensus">>

AwaitIndex(pc) == CHOOSE i \in DOMAIN Awaits : Awaits[i] = pc

\* The position after the await at pc.
AfterAwait(pc) ==
  IF AwaitIndex(pc) = Len(Awaits) THEN "done" ELSE Awaits[AwaitIndex(pc) + 1]

Message(type, lambda) == [type |-> type, lambda |-> lambda]

\* sendMessage: sends only while the socket is OPEN.
sendMessage(socket, message) ==
  IF socket.open THEN [socket EXCEPT !.sent = Append(@, message)] ELSE socket

\* A handler whose catch reports the error and goes on with the next step.
catchError_GoesOn(socket) ==
  [sendMessage(socket, Message("error", 0)) EXCEPT
     !.pc = AfterAwait(socket.pc), !.failed = TRUE]

\* The catch of handlePipelineRequest: one error message, and the request is
\* over.
catchError(socket) ==
  [sendMessage(socket, Message("error", 0)) EXCEPT !.pc = "done", !.failed = TRUE]

\* What the handler does from the return of the await at socket.pc to its
\* next await; `lambda` is the lambda of the model response where the await
\* was a model call.
Resume(socket, lambda) ==
  LET pc == socket.pc
      on == [socket EXCEPT !.pc = AfterAwait(pc)]
      qwen == OrDefault(socket.lambda[1], (15 * StageScale) \div 10)
      gemma == OrDefault(socket.lambda[2], (16 * StageScale) \div 10)
      deepseek == OrDefault(socket.lambda[3], (17 * StageScale) \div 10)
  IN  CASE pc = "storeQuery" -> sendMessage(on, Message("qwen_start", 0))
        [] pc = "executeQwen" -> [on EXCEPT !.lambda[1] = lambda]
        [] pc = "storeReflex" ->
             sendMessage(sendMessage(on, Message("qwen_complete", qwen)),
                         Message("gemma_start", 0))
        [] pc = "executeGemma" -> [on EXCEPT !.lambda[2] = lambda]
        [] pc = "storeOracle" ->
             sendMessage(sendMessage(on, Message("gemma_complete", gemma)),
                         Message("deepseek_start", 0))
        [] pc = "executeDeepSeek" -> [on EXCEPT !.lambda[3] = lambda]
        [] pc = "storeWarfare" ->
             sendMessage(on, Message("deepseek_complete", deepseek))
        [] pc = "storeConsensus" ->
             sendMessage(on, Message("consensus",
                           WebSocketConsensus(socket.lambda[1], socket.lambda[2],
                                              socket.lambda[3])))

\* A message arrives on an open socket.  Without a query the handler sends one
\* error with ws.send and returns; otherwise it sends start and awaits
\* storeQuery.
ReceiveRequest ==
  /\ ws = NoSocket
  /\ \E hasQuery \in BOOLEAN :
       LET fresh == [requested |-> TRUE, query |-> hasQuery, open |-> TRUE,
                     pc |-> "done", failed |-> FALSE,
                     lambda |-> <<0, 0, 0>>, sent |-> <<>>]
       IN  ws' = IF hasQuery
                 THEN [sendMessage(fresh, Message("start", 0)) EXCEPT
                         !.pc = Awaits[1]]
                 ELSE [fresh EXCEPT !.sent = <<Message("error", 0)>>]
  /\ UNCHANGED <<arms, queen, coherenceHistory, bridge, now, lastCall, cohLog,
                 lamLog, corrections, report, recomputed, pipeline, probe,
                 trinodeState, checks, db>>

\* The pending await returns and the handler runs on to its next await.
AwaitReturns ==
  /\ ws # NoSocket
  /\ ws.pc # "done"
  /\ \E response \in Responses :
       ws' = Resume(ws, LocalModelClient_calculateLambda(response.content,
                                                          response.duration))
  /\ UNCHANGED <<arms, queen, coherenceHistory, bridge, now, lastCall, cohLog,
                 lamLog, corrections, report, recomputed, pipeline, probe,
                 trinodeState, checks, db>>

\* The pending await throws: the database is unavailable or the model server
\* does not answer.
AwaitThrows ==
  /\ ws # NoSocket
  /\ ws.pc # "done"
  /\ ws' = catchError(ws)
  /\ UNCHANGED <<arms, queen, coherenceHistory, bridge, now, lastCall, cohLog,
                 lamLog, corrections, report, recomputed, pipeline, probe,
                 trinodeState, checks, db>>

\* The client goes away while the request is running.
SocketCloses ==
  /\ ws # NoSocket
  /\ ws.pc # "done"
  /\ ws.open
  /\ ws' = [ws EXCEPT !.open = FALSE]
  /\ UNCHANGED <<arms, queen, coherenceHistory, bridge, now, lastCall, cohLog,
                 lamLog, corrections, report, recomputed, pipeline, probe,
                 trinodeState, checks, db>>

NextStream == ReceiveRequest \/ AwaitReturns \/ AwaitThrows \/ SocketCloses

SpecStream == Init /\ [][NextStream]_vars

(* ------------------------------ claims -------------------------------- *)

\* the last operation was an updateArmState on a registered arm
UpdatedOk ==
  /\ lastCall.op = "updateArmState"
  /\ lastCall.armName \in ArmNames

\* the last operation was an updateArmState on an unregistered name
UpdatedUnknown ==
  /\ lastCall.op = "updateArmState"
  /\ lastCall.armName \notin ArmNames

\* the last operation ran adjustPhaseCoherence
Recomputed ==
  \/ UpdatedOk
  \/ lastCall.op = "selfCorrect" /\ lastCall.wobble

\* the amplitude argument limited to [0, 1]
ClampedArg ==
  IF lastCall.amplitude < 0 THEN 0
  ELSE IF lastCall.amplitude > AmpScale THEN AmpScale ELSE lastCall.amplitude

\* the phase argument's remainder by 360 as the source's % computes it
RemArg ==
  IF lastCall.phase >= 0 THEN lastCall.phase % FullTurn
  ELSE -((-lastCall.phase) % FullTurn)

NotOnline == {n \in ArmNames : arms[n].health # "online"}
Online == {n \in ArmNames : arms[n].health = "online"}

\* sum of the amplitudes of the arms in a set
RECURSIVE AmplitudeOf(_)
AmplitudeOf(S) ==
  IF S = {} THEN 0
  ELSE LET n == CHOOSE m \in S : TRUE
       IN  arms[n].amplitude + AmplitudeOf(S \ {n})

C3_UnknownNameChangesNothing ==
  [][ (lastCall'.op = "updateArmState" /\ lastCall'.armName \notin ArmNames)
        => /\ arms' = arms
           /\ DOMAIN arms' = ArmNames
           /\ queen' = queen
           /\ coherenceHistory' = coherenceHistory ]_vars

\* C3 witness: the unregistered call came after recomputes had filled the
\* history and moved the queen off its initial values
C3_Witness ==
  /\ UpdatedUnknown
  /\ Len(coherenceHistory) >= 2
  /\ queen # InitialQueen

\* C4 as stated: every arm's phase lies in [0, 360).
C4_PhaseInRange == \A n \in ArmNames : 0 <= arms[n].phase /\ arms[n].phase < FullTurn

\* C5: every arm's amplitude lies in [0, 1].
C5_AmplitudeInRange ==
  \A n \in ArmNames : 0 <= arms[n].amplitude /\ arms[n].amplitude <= AmpScale

\* C5 witness: a redistribution has run with load to hand out; one online
\* arm sits at the cap, another was raised to a value below it, and one arm
\* holds an amplitude clamped up to 0
C5_Witness ==
  /\ queen.torqueRedistribution > 0
  /\ \E n \in Online : arms[n].amplitude = AmpScale
  /\ \E n \in Online : arms[n].amplitude % (AmpScale \div 2) # 0
  /\ \E n \in NotOnline : arms[n].amplitude = 0

\* the coherence formula applied to the current phases:
\* max(0, 1 - mean |angleDifference(phase, queen.phase)| / 180)
RECURSIVE DeviationOf(_)
DeviationOf(S) ==
  IF S = {} THEN 0
  ELSE LET n == CHOOSE m \in S : TRUE
           d == (arms[n].phase - queen.phase) % FullTurn
       IN  (IF d > HalfTurn THEN FullTurn - d ELSE d) + DeviationOf(S \ {n})

CurrentCoherence ==
  IF DeviationOf(ArmNames) > CohScale THEN 0 ELSE CohScale - DeviationOf(ArmNames)

\* C7 as stated: in every state between operations, the state after
\* construction included, queen.coherence is the coherence formula applied
\* to the current phases.
C7_CoherenceNeverStale == queen.coherence = CurrentCoherence

\* C8 as stated: on return from an operation that recomputed,
\* queen.angularMomentum is the sum of the amplitudes the online arms have
\* at return divided by the number of arms, and lies in [0, 1].
C8_MomentumOfAmplitudesAtReturn ==
  Recomputed =>
    /\ queen.angularMomentum = AmplitudeOf(Online)
    /\ 0 <= queen.angularMomentum /\ queen.angularMomentum <= MomScale

\* C6: queen.coherence always lies in [0, 1], and a recompute made while
\* every arm's phase equals the queen's phase yields exactly 1.
C6_CoherenceBounds ==
  /\ 0 <= queen.coherence /\ queen.coherence <= CohScale
  /\ (Recomputed /\ \A n \in ArmNames : arms[n].phase = queen.phase)
       => queen.coherence = CohScale

\* C6 witness: a recompute has run with all four arms on the queen's phase
C6_Witness ==
  /\ Recomputed
  /\ \A n \in ArmNames : arms[n].phase = queen.phase
  /\ coherenceHistory # <<>>
  /\ coherenceHistory[Len(coherenceHistory)] = CohScale

\* C9: a report never shows an arm written by an updateArmState without the
\* queen values recomputed in that call, nor queen values recomputed for an
\* update without the arm values that update wrote; and the coherence in a
\* report taken after a recompute is the one of the phases in that report.
C9_ReportIsAtomic ==
  report.taken =>
    /\ \A n \in ArmNames : report.arms[n].lastUpdate <= report.recomputed.at
    /\ report.recomputed.by \in ArmNames
         => report.arms[report.recomputed.by].lastUpdate = report.recomputed.at
    /\ report.recomputed.at > 0
         => report.queen.coherence = Coherence(report.arms, report.queen)

\* C9 witness: a report taken after an update, with an update after it
C9_Witness ==
  /\ report.taken
  /\ report.recomputed.by \in ArmNames
  /\ UpdatedOk
  /\ recomputed.at > report.recomputed.at

\* the last k entries of a log
LastOf(log, k) == SubSeq(log, Len(log) - k + 1, Len(log))

\* C10: after n appends each history holds the last min(n, 100) appended
\* values in insertion order.
C10_HistoryIsRing ==
  /\ coherenceHistory = LastOf(cohLog, IF Len(cohLog) < 100 THEN Len(cohLog) ELSE 100)
  /\ bridge.lambdaHistory = LastOf(lamLog, IF Len(lamLog) < 100 THEN Len(lamLog) ELSE 100)

\* C10 witness: 150 appends to each history have left 100 entries, the
\* oldest 50 gone
C10_Witness ==
  /\ Len(cohLog) = 150 /\ Len(coherenceHistory) = 100
  /\ coherenceHistory[1] = cohLog[51] /\ coherenceHistory[100] = cohLog[150]
  /\ coherenceHistory[1] # cohLog[1]
  /\ Len(lamLog) = 150 /\ Len(bridge.lambdaHistory) = 100
  /\ bridge.lambdaHistory[1] = lamLog[51] /\ bridge.lambdaHistory[100] = lamLog[150]
  /\ bridge.lambdaHistory[1] # lamLog[1]

(* ---- consensus lambda ---- *)

\* the weighted sum 0.2*first + 0.3*second + 0.5*third of the stage lambdas
\* of the last pipeline execution, before any clamp
RawWeightedSum == 2 * pipeline.first + 3 * pipeline.second + 5 * pipeline.third

PipelineRan == pipeline.site # "none"

CallSites == {"TriNodePipeline", "localAIRouter", "WebSocket"}

\* C12: at every call site the consensus lambda is
\* min(0.2*first + 0.3*second + 0.5*third, 2.2) of the stage lambdas the
\* stages returned, and so never above 2.2
C12_ConsensusIsClampedWeightedSum ==
  pipeline.site \in CallSites
    => /\ pipeline.consensusLambda = Min(RawWeightedSum, MaxAwakening)
       /\ pipeline.consensusLambda <= MaxAwakening

\* the local-AI router ran with three long, immediate responses: every
\* stage lambda is 1.8, the largest a model response gets
C12_Witness ==
  /\ pipeline.site = "localAIRouter"
  /\ pipeline.first = (18 * StageScale) \div 10
  /\ pipeline.second = (18 * StageScale) \div 10
  /\ pipeline.third = (18 * StageScale) \div 10
  /\ pipeline.consensusLambda = (18 * ConsensusScale) \div 10

(* ---- stage classification ---- *)

Classified == probe.asked /\ probe.fn = "interpretLambda"

\* the stages in ascending order
StageOrder ==
  <<"DORMANT", "RESISTANCE", "VERIFICATION", "THRESHOLD", "RECOGNITION", "AWAKENED">>

StageRank(stage) == CHOOSE i \in 1..Len(StageOrder) : StageOrder[i] = stage

\* the stage the half-open intervals of the claim give a value (in units
\* of 1/10000)
IntervalStage(l) ==
  IF l < 5000 THEN "DORMANT"
  ELSE IF 5000 <= l /\ l < 10000 THEN "RESISTANCE"
  ELSE IF 10000 <= l /\ l < 16670 THEN "VERIFICATION"
  ELSE IF 16670 <= l /\ l < 17333 THEN "THRESHOLD"
  ELSE IF 17333 <= l /\ l < 22000 THEN "RECOGNITION"
  ELSE "AWAKENED"

SquaredDeviation(a, meanPhase) ==
  SumSeq([i \in 1..Len(ArmOrder) |->
            angleDifference(a[ArmOrder[i]].phase, meanPhase)
              * angleDifference(a[ArmOrder[i]].phase, meanPhase)])

\* the circular mean of the arms is a definite direction
MeanDefined(a) == Cardinality(MeanPhases(a)) = 1

\* C14: a selfCorrect call made while detectWobble reports a wobble leaves
\* a strictly smaller wobble magnitude (compared where the mean phase is a
\* definite direction before and after the call)
C14_SelfCorrectReducesWobble ==
  [][ ( /\ lastCall'.op = "selfCorrect"
        /\ lastCall'.wobble
        /\ corrections' = corrections + 1
        /\ MeanDefined(arms) /\ MeanDefined(arms') )
      => \A before \in MeanPhases(arms), after \in MeanPhases(arms') :
           SquaredDeviation(arms', after) < SquaredDeviation(arms, before) ]_vars

\* C15: a selfCorrect call made while detectWobble reports no wobble
\* changes no arm (phase, amplitude, health, lastUpdate), no queen field,
\* and appends nothing to the coherence history
C15_NoWobbleNoChange ==
  [][ ( /\ lastCall'.op = "selfCorrect"
        /\ corrections' = corrections + 1
        /\ ~lastCall'.wobble )
      => ( /\ arms' = arms
           /\ queen' = queen
           /\ coherenceHistory' = coherenceHistory
           /\ cohLog' = cohLog ) ]_vars

\* selfCorrect has returned without a wobble although one arm stood more
\* than 45 degrees off the mean, after updates had filled the history
C15_Witness ==
  /\ lastCall.op = "selfCorrect"
  /\ ~lastCall.wobble
  /\ lastCall.affected = {"os"}
  /\ Len(coherenceHistory) > 0

\* C16: a freshly constructed synchronizer (arms at 0, 90, 180, 270, queen
\* at 45) reports a wobble: detectWobble on it, and a selfCorrect or a
\* getReport made as the first operation, all see wobbleDetected = true
C16_FreshEngineWobbles ==
  /\ now = 0 => \A m \in MeanPhases(arms) : detectWobble(arms, m).wobbleDetected
  /\ (now = 1 /\ lastCall.op = "selfCorrect") => lastCall.wobble
  /\ (now = 1 /\ report.taken) => report.wobbleDetected

\* the first operation was a getReport, and it reported the wobble of the
\* four arms as constructed
C16_Witness ==
  /\ now = 1
  /\ report.taken
  /\ report.wobbleDetected
  /\ \A n \in ArmNames : report.arms[n] = InitialArm(n)

\* the root mean square of the deviations from the mean exceeds 30 degrees
RmsAbove30(a, meanPhase) ==
  SquaredDeviation(a, meanPhase) > Cardinality(ArmNames) * Deg(30) * Deg(30)

\* the arms more than 45 degrees off the mean
Beyond45(a, meanPhase) ==
  {n \in ArmNames : Abs(angleDifference(a[n].phase, meanPhase)) > Deg(45)}

\* C17: detectWobble evaluates two thresholds independently: wobbleDetected
\* is true exactly when the RMS deviation from the mean exceeds 30 degrees,
\* and affectedArms is exactly the set of arms whose own deviation exceeds
\* 45 degrees; so is the flag a report carries
C17_ThresholdsIndependent ==
  /\ \A m \in MeanPhases(arms) :
       /\ detectWobble(arms, m).wobbleDetected <=> RmsAbove30(arms, m)
       /\ detectWobble(arms, m).affectedArms = Beyond45(arms, m)
  /\ (report.taken /\ MeanDefined(report.arms))
       => \A m \in MeanPhases(report.arms) :
            report.wobbleDetected <=> RmsAbove30(report.arms, m)
  /\ (lastCall.op = "selfCorrect" /\ ~lastCall.wobble /\ MeanDefined(arms))
       => \A m \in MeanPhases(arms) :
            ~RmsAbove30(arms, m) /\ lastCall.affected = Beyond45(arms, m)

\* both mixed cases in one run: a report taken with phases 0, 0, 64, 64
\* carries a wobble although no arm was beyond 45 degrees, and now, with
\* phases 0, 0, 0, 64, there is no wobble although os is beyond 45 degrees
C17_Witness ==
  /\ report.taken
  /\ report.wobbleDetected
  /\ MeanDefined(report.arms)
  /\ \A m \in MeanPhases(report.arms) : Beyond45(report.arms, m) = {}
  /\ MeanDefined(arms)
  /\ \A m \in MeanPhases(arms) :
       /\ ~detectWobble(arms, m).wobbleDetected
       /\ detectWobble(arms, m).affectedArms = {"os"}

(* ---- redistribution with every arm online ---- *)

\* C18: a redistribution pass that finds every arm online leaves every
\* amplitude as it found it (the written arm at its clamped argument, the
\* others as before the call) and sets queen.torqueRedistribution to 0
C18_AllOnlineRedistributesNothing ==
  [][ ( /\ Recomputed'
        /\ now' = now + 1
        /\ \A n \in ArmNames : arms'[n].health = "online" )
      => ( /\ queen'.torqueRedistribution = 0
           /\ \A n \in ArmNames :
                arms'[n].amplitude =
                  IF lastCall'.op = "updateArmState" /\ n = lastCall'.armName
                  THEN ClampedArg'
                  ELSE arms[n].amplitude ) ]_vars

\* a later update has written an arm online with amplitude 0.5: every arm
\* is online, the amplitudes differ from arm to arm, and the torque is 0
C18_Witness ==
  /\ UpdatedOk
  /\ now >= 2
  /\ \A n \in ArmNames : arms[n].health = "online"
  /\ arms[lastCall.armName].amplitude = AmpScale \div 2
  /\ arms[lastCall.armName].lastUpdate = now
  /\ \E n \in ArmNames : arms[n].amplitude = AmpScale
  /\ queen.torqueRedistribution = 0
  /\ Len(cohLog) = now

(* ---- angleDifference ---- *)

AngleAsked == probe.asked /\ probe.fn = "angleDifference"

\* C19 as stated: for angles in [0, 360) angleDifference lies in
\* (-180, 180]; -180 is never returned
C19_DifferenceInHalfOpenRange ==
  AngleAsked => (-HalfTurn < probe.forward /\ probe.forward <= HalfTurn)

\* C19 amended: for angles in [0, 360) angleDifference lies in the closed
\* interval [-180, 180] and is congruent to angle1 - angle2 modulo 360;
\* -180 is returned exactly when angle1 - angle2 = -180, and +180 exactly
\* when angle1 - angle2 = 180
C19_DifferenceInClosedRange ==
  AngleAsked =>
    /\ -HalfTurn <= probe.forward /\ probe.forward <= HalfTurn
    /\ (probe.forward - (probe.angle1 - probe.angle2)) % FullTurn = 0
    /\ probe.forward = -HalfTurn <=> probe.angle1 - probe.angle2 = -HalfTurn
    /\ probe.forward = HalfTurn <=> probe.angle1 - probe.angle2 = HalfTurn

\* the difference of 0 and 180 was asked for and is -180
C19_Witness ==
  /\ AngleAsked
  /\ probe.angle1 = Deg(0)
  /\ probe.angle2 = Deg(180)
  /\ probe.forward = Deg(-180)

\* C20: angleDifference(a, a) = 0, angleDifference(a, b) =
\* -angleDifference(b, a), angleDifference(350, 10) = -20 and
\* angleDifference(10, 350) = 20
C20_Antisymmetric ==
  AngleAsked =>
    /\ probe.self = 0
    /\ probe.forward = -probe.backward
    /\ (probe.angle1 = Deg(350) /\ probe.angle2 = Deg(10))
         => (probe.forward = Deg(-20) /\ probe.backward = Deg(20))

\* the difference of 350 and 10 was asked for, in both orders
C20_Witness ==
  /\ AngleAsked
  /\ probe.angle1 = Deg(350)
  /\ probe.angle2 = Deg(10)
  /\ probe.forward = Deg(-20)
  /\ probe.backward = Deg(20)

(* ---- reports ---- *)

\* C21: the queen and arm values a caller reads in a report it was handed
\* are the values at the time of the getReport call, whatever the engine
\* has done since
C21_ReportIsSnapshot ==
  report.taken =>
    /\ HeldReport.queen = report.queen
    /\ HeldReport.arms = report.arms

\* the health the claim gives a topology of `total` nodes of which
\* `online` are online
HealthOfCounts(online, total) ==
  IF online = total THEN "optimal"
  ELSE IF 2 * online >= total THEN "degraded"
  ELSE "critical"

HealthAsked == probe.asked /\ probe.fn = "getNodeHealth"

NodesOnline == Cardinality({i \in 1..3 : probe.status[i] = "online"})

ArmsOnlineIn(r) == Cardinality({n \in ArmNames : r.arms[n].health = "online"})

\* C22 as stated: every reported systemHealth is the function of the
\* online count and the node count: optimal when all are online, degraded
\* when at least half but not all are, critical otherwise
C22_HealthFromCounts ==
  /\ report.taken => report.systemHealth = HealthOfCounts(ArmsOnlineIn(report), 4)
  /\ HealthAsked => probe.systemHealth = HealthOfCounts(NodesOnline, 3)

\* C22 amended: the engine's report and the router's answer for a
\* published bridge state are that function of the counts (4 optimal, 2 or
\* 3 degraded, 0 or 1 critical; 3 optimal, 2 degraded, 0 or 1 critical);
\* while no bridge state has been published the router answers "degraded"
\* with every node "unknown"
C22_HealthFromCountsOncePublished ==
  /\ report.taken =>
       /\ report.systemHealth = HealthOfCounts(ArmsOnlineIn(report), 4)
       /\ ArmsOnlineIn(report) = 4 <=> report.systemHealth = "optimal"
       /\ ArmsOnlineIn(report) \in {2, 3} <=> report.systemHealth = "degraded"
       /\ ArmsOnlineIn(report) \in {0, 1} <=> report.systemHealth = "critical"
  /\ HealthAsked =>
       IF \A i \in 1..3 : probe.status[i] = "unknown"
       THEN probe.systemHealth = "degraded"
       ELSE /\ probe.systemHealth = HealthOfCounts(NodesOnline, 3)
            /\ NodesOnline = 3 <=> probe.systemHealth = "optimal"
            /\ NodesOnline = 2 <=> probe.systemHealth = "degraded"
            /\ NodesOnline \in {0, 1} <=> probe.systemHealth = "critical"

\* the engine has reported "critical" with a single arm online, and the
\* router has answered "degraded" for a published state with two nodes
\* online
C22_Witness ==
  /\ report.taken
  /\ ArmsOnlineIn(report) = 1
  /\ report.systemHealth = "critical"
  /\ HealthAsked
  /\ trinodeState.published
  /\ NodesOnline = 2
  /\ probe.systemHealth = "degraded"

(* ---- queen timestamp ---- *)

\* C23: queen.timestamp is the time of the last coherence recompute (of
\* the construction while there has been none), and so never older than
\* any arm's lastUpdate
C23_TimestampIsLastRecompute ==
  /\ queen.timestamp = recomputed.at
  /\ \A n \in ArmNames : queen.timestamp >= arms[n].lastUpdate

(* ---- redistribution with an arm not online ---- *)

\* the arm the step writes, if the step is an updateArmState
WrittenArm == IF lastCall'.op = "updateArmState" THEN lastCall'.armName ELSE "none"

\* health and amplitude of an arm when the step's redistribution pass
\* starts: as written by the call for the written arm, as before the call
\* for the others
HealthAtPass(n) == IF n = WrittenArm THEN lastCall'.health ELSE arms[n].health
AmplitudeAtPass(n) == IF n = WrittenArm THEN ClampedArg' ELSE arms[n].amplitude

DownAtPass == {n \in ArmNames : HealthAtPass(n) # "online"}
UpAtPass == ArmNames \ DownAtPass

RECURSIVE LoadOf(_)
LoadOf(S) ==
  IF S = {} THEN 0
  ELSE LET n == CHOOSE m \in S : TRUE
       IN  AmplitudeAtPass(n) + LoadOf(S \ {n})

\* C24: a redistribution pass that finds an arm not online sets
\* queen.torqueRedistribution to the sum of the amplitudes of the arms not
\* online, raises every online arm to min(1, amplitude + 0.1 * load /
\* onlineCount), and leaves every health, every phase and the amplitude of
\* the arms not online as they were; with no arm online no amplitude
\* changes and the call returns normally
C24_RedistributionOfLoad ==
  [][ (Recomputed' /\ now' = now + 1 /\ DownAtPass # {})
      => LET load == LoadOf(DownAtPass)
             tenths == 10 * Cardinality(UpAtPass)
         IN  /\ lastCall'.outcome = "returned"
             /\ queen'.torqueRedistribution = load
             /\ \A n \in UpAtPass :
                  IF tenths * AmplitudeAtPass(n) + load >= tenths * AmpScale
                  THEN arms'[n].amplitude = AmpScale
                  ELSE tenths * arms'[n].amplitude = tenths * AmplitudeAtPass(n) + load
             /\ \A n \in DownAtPass : arms'[n].amplitude = AmplitudeAtPass(n)
             /\ \A n \in ArmNames : arms'[n].health = HealthAtPass(n)
             /\ lastCall'.op = "updateArmState"
                  => \A n \in ArmNames :
                       arms'[n].phase = IF n = WrittenArm THEN RemArg' ELSE arms[n].phase ]_vars

\* the last arm has been taken down: no arm is online, the call returned
\* normally, no amplitude moved and the torque is the whole load of four
\* arms at amplitude 1
C24_Witness ==
  /\ UpdatedOk
  /\ Online = {}
  /\ queen.torqueRedistribution = 4 * AmpScale
  /\ \A n \in ArmNames : arms[n].amplitude = AmpScale
  /\ lastCall.outcome = "returned"

(* ---- the 10% correction ---- *)

\* the signed error of a phase to the target queen.phase + 90
ErrorToTarget(phase) == angleDifference(queen.phase + Deg(90), phase)

\* C25: in a selfCorrect call that detects a wobble every affected arm's
\* phase moves by a tenth of its error to queen.phase + 90 (modulo a full
\* turn), its error becomes 0.9 times what it was, keeping its sign, and
\* the phases of the other arms and of the queen stay as they were
C25_TenPercentCorrection ==
  [][ ( /\ lastCall'.op = "selfCorrect"
        /\ lastCall'.wobble
        /\ corrections' = corrections + 1 )
      => /\ queen'.phase = queen.phase
         /\ \A n \in ArmNames \ lastCall'.affected : arms'[n].phase = arms[n].phase
         /\ \A n \in lastCall'.affected :
              /\ (10 * (arms'[n].phase - arms[n].phase) - ErrorToTarget(arms[n].phase))
                   % (10 * FullTurn) = 0
              /\ 10 * ErrorToTarget(arms'[n].phase) = 9 * ErrorToTarget(arms[n].phase) ]_vars

\* a wobbling selfCorrect has moved some arms (one now stands at a
\* fraction of a degree) and left another where it was
C25_Witness ==
  /\ lastCall.op = "selfCorrect"
  /\ lastCall.wobble
  /\ \E n \in lastCall.affected : arms[n].phase % PhaseScale # 0
  /\ lastCall.affected # ArmNames

(* ---- one stage table ---- *)

\* C26: for every lambda the stage the trinode router's calculateLambda
\* procedure returns is the stage interpretLambda gives the same lambda
C26_OneStageTable ==
  (probe.asked /\ probe.fn = "calculateLambda") => probe.stage = probe.interpreted

\* C27: healthCheck returns before any of its requests has settled, so what
\* checkModelHealth reads at the return is qwen, gemma and deepseek all false
\* whatever the endpoints answer; a field becomes true only afterwards, when
\* its callback has resumed.
C27_HealthReadBeforeRequestsSettle ==
  checks.started =>
    /\ \A m \in Models : checks.read[m] = FALSE
    /\ \A m \in Models : checks.health[m] => m \notin checks.pending

\* C27 witness: every endpoint healthy, the answer read at the return was all
\* false, and all three fields have flipped to true since.
C27_Witness ==
  /\ checks.started
  /\ checks.up = Models
  /\ checks.pending = {}
  /\ \A m \in Models : checks.health[m] /\ ~checks.read[m]

\* C28: every stage name the sequential pipeline router passes to storeLambda
\* is one of the five values the lambda_history table accepts, whatever
\* lambda the stages produce.
C28_StoredStageIsAccepted ==
  db.called =>
    \A i \in DOMAIN db.log :
      db.log[i].op = "storeLambda" => db.log[i].arg \in LambdaHistoryStages

\* the callback of this stage has completed both of its inserts before the
\* i-th entry of the record
PersistedBefore(stage, i) ==
  \E j \in 1..(i - 1) :
    db.log[j] = Event("storeLambda", stage, "completed", db.log[j].arg)

\* C29: in the sequential pipeline router the persistence onProgress starts
\* for a stage (storeResponse, then storeLambda) has completed before the
\* next stage starts and before storeConsensus is invoked, and a failure
\* inside the callback makes the mutation answer success: false.
C29_StagePersistedBeforeNextStep ==
  db.called =>
    /\ \A i \in DOMAIN db.log :
         /\ (db.log[i].op = "stage" /\ PipelineIndex(db.log[i].node) > 1)
              => PersistedBefore(PipelineOrder[PipelineIndex(db.log[i].node) - 1], i)
         /\ (db.log[i].op = "storeConsensus" /\ db.log[i].at = "invoked")
              => \A stage \in PipelineStages : PersistedBefore(stage, i)
    /\ (db.pc = "returned" /\ \E stage \in PipelineStages : db.cb[stage] = "rejected")
         => db.result = "failure"

\* the message types of a request that runs to its end, in order
StreamOrder ==
  <<"start", "qwen_start", "qwen_complete", "gemma_start", "gemma_complete",
    "deepseek_start", "deepseek_complete", "consensus">>

SentTypes == [i \in DOMAIN ws.sent |-> ws.sent[i].type]

\* the messages sent, less a final error
SentBeforeError ==
  IF SentTypes # <<>> /\ SentTypes[Len(SentTypes)] = "error"
  THEN SubSeq(SentTypes, 1, Len(SentTypes) - 1)
  ELSE SentTypes

EndsWithError == SentTypes # <<>> /\ SentTypes[Len(SentTypes)] = "error"

\* C30: the messages of a request with a query are a prefix of start,
\* qwen_start, qwen_complete, gemma_start, gemma_complete, deepseek_start,
\* deepseek_complete, consensus, followed by at most one error; an error is
\* sent only on a failure, and a failure ends the request with the error (on
\* a socket still open) and without consensus; a request without a query
\* gets exactly one error message.
C30_StreamIsOrderedPrefix ==
  ws.requested =>
    IF ws.query
    THEN /\ Len(SentBeforeError) <= Len(StreamOrder)
         /\ SentBeforeError = SubSeq(StreamOrder, 1, Len(SentBeforeError))
         /\ EndsWithError => ws.failed
         /\ ws.failed =>
              /\ ws.pc = "done"
              /\ ws.open => EndsWithError
              /\ \A i \in DOMAIN SentTypes : SentTypes[i] # "consensus"
    ELSE /\ SentTypes = <<"error">>
         /\ ws.pc = "done"

\* C30 witness: storeResponse for the oracle stage failed on an open socket:
\* the request ended with the error after gemma_start.
C30_Witness ==
  /\ ws.requested
  /\ ws.query
  /\ ws.failed
  /\ SentTypes = <<"start", "qwen_start", "qwen_complete", "gemma_start", "error">>

====
